---- MODULE Spec2Model ----
(***************************************************************************)
(* dmdb_exporter (src/main.go): the scrape cycle of an Exporter            *)
(* (Exporter.scrape and the goroutines it starts), the generic value       *)
(* scraper (ScrapeGenericValues / GeneratePrometheusMetrics), and the      *)
(* probe-mode HTTP handler with its target resolution (scrapeHandle /      *)
(* formExporterDSN).                                                       *)
(*                                                                         *)
(* Go strings that the code takes apart (column names, kind tokens, cell   *)
(* texts, request targets) are sequences of one-character strings; a nil   *)
(* error is the string "nil".                                              *)
(***************************************************************************)
EXTENDS Integers, Sequences, FiniteSets, TLC

\* ------------------------------------------------------------------ bounds
\* Number of metric definitions loaded into metricsToScrap.
NumMetrics == 2
\* Number of scrape cycles (calls of Exporter.Collect) that are followed.
MaxScrapes == 2
\* Largest number of rows a query result holds.
MaxRows == 2
\* Number of /scrape requests handled concurrently in probe mode.
NumRequests == 2
\* Longest request target, in characters.
MaxTargetLen == 3

\* ----------------------------------------------------------- Go strings
Digits == <<"0", "1", "2", "3", "4", "5", "6", "7", "8", "9">>

IsDigit(c) == \E d \in DOMAIN Digits : Digits[d] = c

DigitVal(c) == (CHOOSE d \in DOMAIN Digits : Digits[d] = c) - 1

\* unicode.ToLower on the letters the model uses.
LowerChar(c) ==
    CASE c = "A" -> "a" [] c = "C" -> "c" [] c = "G" -> "g"
      [] c = "N" -> "n" [] c = "V" -> "v" [] c = "X" -> "x"
      [] OTHER -> c

\* strings.ToLower
ToLower(s) == [j \in DOMAIN s |-> LowerChar(s[j])]

\* strings.TrimSpace
RECURSIVE TrimLeft(_)
TrimLeft(s) == IF s # <<>> /\ Head(s) = " " THEN TrimLeft(Tail(s)) ELSE s

RECURSIVE TrimRight(_)
TrimRight(s) ==
    IF s # <<>> /\ s[Len(s)] = " " THEN TrimRight(SubSeq(s, 1, Len(s) - 1)) ELSE s

TrimSpace(s) == TrimRight(TrimLeft(s))

\* The value of a string of decimal digits.
RECURSIVE DecimalValue(_)
DecimalValue(s) ==
    IF s = <<>> THEN 0
    ELSE 10 * DecimalValue(SubSeq(s, 1, Len(s) - 1)) + DigitVal(s[Len(s)])

AllDigits(s) == s # <<>> /\ \A j \in DOMAIN s : IsDigit(s[j])

\* strconv.ParseFloat(s, 64) on the texts of the model: an unsigned or
\* negative decimal integer parses, anything else is a syntax error.
ParseFloat(s) ==
    IF AllDigits(s) THEN [ok |-> TRUE, val |-> DecimalValue(s)]
    ELSE IF s # <<>> /\ Head(s) = "-" /\ AllDigits(Tail(s))
         THEN [ok |-> TRUE, val |-> 0 - DecimalValue(Tail(s))]
         ELSE [ok |-> FALSE, val |-> 0]

\* strings.Replace(s, old, new, -1) for a one-character old.
RECURSIVE ReplaceAll(_, _, _)
ReplaceAll(s, old, new) ==
    IF s = <<>> THEN <<>>
    ELSE (IF Head(s) = old THEN new ELSE <<Head(s)>>) \o ReplaceAll(Tail(s), old, new)

cleanName(s) ==
    ToLower(ReplaceAll(ReplaceAll(ReplaceAll(ReplaceAll(ReplaceAll(
        s, " ", <<"_">>), "(", <<>>), ")", <<>>), "/", <<>>), "*", <<>>))

\* strings.Split(s, sep) for a one-character sep: the pieces of s between
\* the separators, at least one piece.
RECURSIVE Split(_, _)
Split(s, sep) ==
    IF \A j \in DOMAIN s : s[j] # sep THEN <<s>>
    ELSE LET k == CHOOSE j \in DOMAIN s :
                    s[j] = sep /\ \A l \in 1..(j - 1) : s[l] # sep
         IN <<SubSeq(s, 1, k - 1)>> \o Split(SubSeq(s, k + 1, Len(s)), sep)

\* strconv.ParseUint(s, 10, 64): decimal digits only, no sign, not empty.
\* (The texts of the model are too short to leave the range of 64 bits.)
ParseUint(s) ==
    IF AllDigits(s) THEN [ok |-> TRUE, val |-> DecimalValue(s)]
    ELSE [ok |-> FALSE, val |-> 0]

\* The decimal text of an unsigned number (the verb %v of fmt on a uint).
RECURSIVE FormatUint(_)
FormatUint(n) ==
    IF n < 10 THEN <<Digits[n + 1]>>
    ELSE FormatUint(n \div 10) \o <<Digits[(n % 10) + 1]>>

namespace == <<"d", "m", "d", "b">>

\* prometheus.BuildFQName: the non-empty parts joined by "_"; an empty name
\* gives the empty string whatever the other parts are.
BuildFQName(ns, subsystem, name) ==
    IF name = <<>> THEN <<>>
    ELSE IF ns # <<>> /\ subsystem # <<>> THEN ns \o <<"_">> \o subsystem \o <<"_">> \o name
    ELSE IF ns # <<>> THEN ns \o <<"_">> \o name
    ELSE IF subsystem # <<>> THEN subsystem \o <<"_">> \o name
    ELSE name

\* ------------------------------------------------- metric definitions
\* A Go map[string]string is a function; a missing key reads as "".
MapGet(m, k) == IF k \in DOMAIN m THEN m[k] ELSE <<>>

Empty == [k \in {} |-> <<>>]

cValue == <<"v">>
cCount == <<"n">>
cName == <<"x">>
cGone == <<"g">>
tGauge == <<"g">>
tCounter == <<"C">>
tHisto == <<"h">>
Help == <<"?">>

\* The strToPromType table of GetMetricType ("gauge", "counter").
strToPromType == (<<"g">> :> "GaugeValue") @@ (<<"c">> :> "CounterValue")

\* GetMetricType: the value type, or "panic" where the code panics.
GetMetricType(metricType, metricsType) ==
    LET key == ToLower(metricType) IN
    IF key \notin DOMAIN metricsType THEN "GaugeValue"
    ELSE LET strType == ToLower(metricsType[key]) IN
         IF strType \notin DOMAIN strToPromType THEN "panic"
         ELSE strToPromType[strType]

Metric(context, labels, desc, types, field, ignoreZero, request) ==
    [Context |-> context, Labels |-> labels, MetricsDesc |-> desc,
     MetricsType |-> types, FieldToAppend |-> field,
     IgnoreZeroResult |-> ignoreZero, Request |-> request]

ctxSessions == <<"s">>
ctxTablespace == <<"t">>
Contexts == {ctxSessions, ctxTablespace}

\* A definition with one value column, no labels and no kind given.
PlainMetric == Metric(ctxSessions, <<>>, cValue :> Help, Empty, <<>>, FALSE, "select")

\* The definitions a configuration file of the model may hold.
MetricPool ==
    { PlainMetric,
      Metric(ctxSessions, <<>>, cValue :> Help, cValue :> tCounter, <<>>, TRUE, "select"),
      Metric(ctxTablespace, <<cName>>, cValue :> Help, cValue :> tGauge, <<>>, FALSE, "select"),
      Metric(ctxTablespace, <<>>, cValue :> Help, cValue :> tHisto, <<>>, FALSE, "select"),
      Metric(ctxTablespace, <<>>, Empty, Empty, <<>>, TRUE, "select"),
      Metric(ctxSessions, <<>>, cValue :> Help, Empty, <<>>, FALSE, "") }

\* The definitions of the translation specification: two value columns with
\* one kind given; two labels, one of them no column of the rows; a name
\* field together with a label; a value column, a label, a name field and a
\* kind key spelled in upper case; a kind token that is no kind.
TranslatePool ==
    { Metric(ctxSessions, <<>>, (cValue :> Help) @@ (cCount :> Help), cValue :> tCounter,
             <<>>, FALSE, "select"),
      Metric(ctxTablespace, <<cName, cGone>>, cValue :> Help, Empty, <<>>, FALSE, "select"),
      Metric(ctxTablespace, <<cName>>, (cValue :> Help) @@ (cCount :> Help), cCount :> tGauge,
             cName, FALSE, "select"),
      Metric(ctxSessions, <<>>, <<"V">> :> Help, Empty, <<>>, TRUE, "select"),
      Metric(ctxTablespace, <<<<"X">>>>, cValue :> Help, Empty, <<>>, FALSE, "select"),
      Metric(ctxTablespace, <<>>, cValue :> Help, Empty, <<"X">>, FALSE, "select"),
      Metric(ctxSessions, <<>>, cValue :> Help, <<"V">> :> tCounter, <<>>, FALSE, "select"),
      Metric(ctxSessions, <<>>, (cValue :> Help) @@ (cCount :> Help), cCount :> tHisto,
             <<>>, FALSE, "select") }

\* -------------------------------------------------------- query results
\* A normalized row: lower-cased column name -> text (the map m built at
\* main.go 358-362).
\* A row whose value column parses as a float.
NumericRow == (cValue :> <<"7">>) @@ (cName :> <<"a">>)

\* The rows of the model: a numeric value, a value that is no number, a
\* numeric value with blanks around it.
RowPool ==
    { NumericRow,
      (cValue :> <<"x">>) @@ (cName :> <<"a">>),
      (cValue :> <<" ", "3", " ">>) @@ (cName :> <<"A", " ", "(", "a", ")">>) }

\* A normalized row of the three columns v, n and x.
Row(v, n, x) == (cValue :> v) @@ (cCount :> n) @@ (cName :> x)

\* The rows of the translation specification: both values numeric; the
\* first no number; blanks around the first, the second empty; neither a
\* number.
TranslateRows ==
    { Row(<<"7">>, <<"-", "1">>, <<"a">>),
      Row(<<"x">>, <<"4">>, <<"a">>),
      Row(<<" ", "3", " ">>, <<>>, <<"A", " ", "(", "a", ")">>),
      Row(<<"x">>, <<"x">>, <<"a">>) }

RECURSIVE SeqsUpTo(_, _)
SeqsUpTo(S, n) ==
    IF n = 0 THEN {<<>>}
    ELSE LET shorter == SeqsUpTo(S, n - 1) IN
         shorter \cup {Append(q, x) : q \in {p \in shorter : Len(p) = n - 1}, x \in S}

\* The results of a query: up to MaxRows rows.
ResultSets == SeqsUpTo(RowPool, MaxRows)

\* The results with numeric rows only.
NumericResultSets == SeqsUpTo({NumericRow}, MaxRows)

\* genericParser's loop over metricsDesc for one row: the columns whose
\* trimmed text parses as a float.
ParsedColumns(m, row) ==
    {c \in DOMAIN m.MetricsDesc : ParseFloat(TrimSpace(MapGet(row, c))).ok}

\* A faulty variant of SampleOf: the labels are attached under both namings.
LabelledSampleOf(m, row, c) ==
    [name |-> IF m.FieldToAppend = <<>> THEN BuildFQName(namespace, m.Context, c)
              ELSE BuildFQName(namespace, m.Context, cleanName(MapGet(row, m.FieldToAppend))),
     labels |-> m.Labels,
     labelValues |-> [j \in DOMAIN m.Labels |-> MapGet(row, m.Labels[j])],
     kind |-> GetMetricType(c, m.MetricsType),
     value |-> ParseFloat(TrimSpace(MapGet(row, c))).val]

\* One sample sent to ch by genericParser for column c of row.
SampleOf(m, row, c) ==
    IF m.FieldToAppend = <<>>
    THEN [name |-> BuildFQName(namespace, m.Context, c),
          labels |-> m.Labels,
          labelValues |-> [j \in DOMAIN m.Labels |-> MapGet(row, m.Labels[j])],
          kind |-> GetMetricType(c, m.MetricsType),
          value |-> ParseFloat(TrimSpace(MapGet(row, c))).val]
    ELSE [name |-> BuildFQName(namespace, m.Context, cleanName(MapGet(row, m.FieldToAppend))),
          labels |-> <<>>,
          labelValues |-> <<>>,
          kind |-> GetMetricType(c, m.MetricsType),
          value |-> ParseFloat(TrimSpace(MapGet(row, c))).val]

\* The columns of a row at which genericParser panics (main.go 293, 301):
\* GetMetricType panics, or MustNewConstMetric panics because the Desc holds
\* the error of an empty, hence invalid, metric name.
PanicColumns(m, row) ==
    {c \in ParsedColumns(m, row) :
        \/ GetMetricType(c, m.MetricsType) = "panic"
        \/ SampleOf(m, row, c).name = <<>>}

\* A faulty variant of ScrapeGenericValuesResult: ignoreZeroResult is not
\* consulted.
ZeroResultAlwaysReported(m, genErr, count) ==
    IF genErr # "nil" THEN genErr
    ELSE IF count = 0 THEN "nometrics"
    ELSE "nil"

\* The return value of ScrapeGenericValues once GeneratePrometheusMetrics
\* has returned genErr and metricsCount samples were sent.
ScrapeGenericValuesResult(m, genErr, count) ==
    IF genErr # "nil" THEN genErr
    ELSE IF ~m.IgnoreZeroResult /\ count = 0 THEN "nometrics"
    ELSE "nil"

\* ------------------------------------------------------------ the state
VARIABLES
    metricsToScrap, \* the loaded definitions (package variable, main.go 69)
    answers,        \* the results the database may answer a query with
    pc,             \* where Exporter.Collect / Exporter.scrape stands
    db,             \* e.db: the identity of the current handle
    err,            \* the variable err of scrape (main.go 177), shared with its goroutines
    up,             \* e.up
    pinged,         \* the handle the second ping of the cycle succeeded on, 0 if none
    errorGauge,     \* e.error (last_scrape_error)
    totalScrapes,   \* e.totalScrapes
    scrapeErrors,   \* e.scrapeErrors, by collector label (the definition's Context)
    errBase,        \* scrapeErrors as it was when the current cycle began
    tpc,            \* per goroutine: its position
    rows,           \* per goroutine: the rows its cursor has not delivered yet
    cursor,         \* per goroutine: "none", "open" or "closed"
    handle,         \* per goroutine: the handle it passed to ScrapeMetric, 0 if none
    expired,        \* per goroutine: the deadline of its context has passed
    metricsCount,   \* per goroutine: metricsCount of ScrapeGenericValues
    ret,            \* per goroutine: what its own ScrapeMetric call returned
    sent,           \* per goroutine: the samples it sent to ch in this cycle
    crashed,        \* the process died of an unrecovered panic
    dsn,            \* the package variable dsn (main.go 41)
    exportConf,     \* the credential store (main.go 42)
    hpc,            \* per request: the position of its handler
    request,        \* per request: its target and module parameters
    resolved,       \* per request: what its formExporterDSN call returned
    exporterDsn,    \* per request: the dsn its exporter was constructed with
    connects,       \* per request: calls of connect made for it
    status          \* per request: the HTTP status answered

taskVars == <<tpc, rows, cursor, handle, expired, metricsCount, ret, sent>>

cycleVars == <<metricsToScrap, answers, pc, db, err, up, pinged, errorGauge, totalScrapes,
               scrapeErrors, errBase, taskVars, crashed>>

probeVars == <<dsn, exportConf, hpc, request, resolved, exporterDsn, connects, status>>

vars == <<cycleVars, probeVars>>

\* One goroutine per loaded definition (main.go 205-209).
Tasks == DOMAIN metricsToScrap

\* ------------------------------------------------------ Exporter.scrape
\* The goroutines' variables while no goroutine exists.
NoTasks(T) ==
    [tpc |-> [i \in T |-> "none"],
     rows |-> [i \in T |-> <<>>],
     cursor |-> [i \in T |-> "none"],
     handle |-> [i \in T |-> 0],
     expired |-> [i \in T |-> FALSE],
     metricsCount |-> [i \in T |-> 0],
     ret |-> [i \in T |-> "none"],
     sent |-> [i \in T |-> <<>>]]

\* No probe request is being handled.
ProbeIdle ==
    /\ dsn = <<>>
    /\ exportConf = <<>>
    /\ hpc = <<>>
    /\ request = <<>>
    /\ resolved = <<>>
    /\ exporterDsn = <<>>
    /\ connects = <<>>
    /\ status = <<>>

\* The exporter after NewExporter (main.go 110-145), no scrape made yet.
ExporterInit(T) ==
    /\ pc = "idle"
    /\ db = 1
    /\ err = "nil"
    /\ up = 0
    /\ pinged = 0
    /\ errorGauge = 0
    /\ totalScrapes = 0
    /\ scrapeErrors = [c \in Contexts |-> 0]
    /\ errBase = [c \in Contexts |-> 0]
    /\ tpc = NoTasks(T).tpc
    /\ rows = NoTasks(T).rows
    /\ cursor = NoTasks(T).cursor
    /\ handle = NoTasks(T).handle
    /\ expired = NoTasks(T).expired
    /\ metricsCount = NoTasks(T).metricsCount
    /\ ret = NoTasks(T).ret
    /\ sent = NoTasks(T).sent
    /\ crashed = FALSE

\* After main has loaded NumMetrics definitions and registered the exporter
\* (main.go 394-416); the database answers with numeric rows.
Init ==
    /\ metricsToScrap \in [1..NumMetrics -> MetricPool]
    /\ answers = NumericResultSets
    /\ ExporterInit(1..NumMetrics)
    /\ ProbeIdle

\* After main has loaded NumMetrics copies of the plain definition; the
\* database answers a query with an error or with one numeric row.
InitPlain ==
    /\ metricsToScrap = [i \in 1..NumMetrics |-> PlainMetric]
    /\ answers = {<<NumericRow>>}
    /\ ExporterInit(1..NumMetrics)
    /\ ProbeIdle

\* After main has loaded one definition of the translation pool; the
\* database answers with up to MaxRows of the translation rows.
InitTranslate ==
    /\ metricsToScrap \in [{1} -> TranslatePool]
    /\ answers = SeqsUpTo(TranslateRows, MaxRows)
    /\ ExporterInit({1})
    /\ ProbeIdle

\* After main has loaded one definition; the database answers with any rows.
InitScrape ==
    /\ metricsToScrap \in [{1} -> MetricPool]
    /\ answers = ResultSets
    /\ ExporterInit({1})
    /\ ProbeIdle

\* main.go 175-186: scrape is entered; totalScrapes is incremented and err is
\* a fresh variable of this call.
ScrapeEntry ==
    /\ totalScrapes' = totalScrapes + 1
    /\ err' = "nil"
    /\ errBase' = scrapeErrors
    /\ pinged' = 0
    /\ pc' = "ping"
    /\ UNCHANGED <<metricsToScrap, answers, db, up, errorGauge, scrapeErrors, taskVars,
                   crashed>>

\* main.go 166-167: Collect calls scrape; a cycle begins.
ScrapeBegin ==
    /\ pc = "idle" /\ ~crashed
    /\ totalScrapes < MaxScrapes
    /\ ScrapeEntry
    /\ UNCHANGED probeVars

\* What e.db.Ping may answer: nil, the error "sql: database is closed", or
\* another error.
PingResults == {"nil", "closed", "other"}

\* A faulty variant of ReconnectWanted: any ping error reconnects.
ReconnectOnAnyError(e) == e # "nil"

\* main.go 188: the test that decides a reconnect.
ReconnectWanted(e) == e = "closed"

\* main.go 187-192: the first ping, and connect(e.dsn) when it failed with
\* "sql: database is closed".
FirstPing ==
    /\ pc = "ping" /\ ~crashed
    /\ \E r \in PingResults :
         /\ err' = r
         /\ IF r # "nil" /\ ReconnectWanted(r) THEN db' = db + 1 ELSE UNCHANGED db
    /\ pc' = "reping"
    /\ UNCHANGED <<metricsToScrap, answers, up, pinged, errorGauge, totalScrapes,
                   scrapeErrors, errBase, taskVars, crashed, probeVars>>

\* main.go 178-185: the deferred function of scrape sets e.error from err.
ErrorGaugeOf(e) == IF e = "nil" THEN 0 ELSE 1

\* A faulty variant of PingFailed: only a closed handle counts as a failure.
PingFailedOnlyWhenClosed(e) == e = "closed"

\* main.go 193: the test of the second ping.
PingFailed(e) == e # "nil"

\* main.go 193-201 and 203-209: the second ping. On failure the cycle ends
\* through the deferred function; on success one goroutine per definition is
\* started. A handle that connect has just returned is open: it does not
\* report itself closed.
SecondPing ==
    /\ pc = "reping" /\ ~crashed
    /\ \E r \in (IF err = "closed" THEN PingResults \ {"closed"} ELSE PingResults) :
         /\ err' = r
         /\ IF PingFailed(r)
            THEN /\ up' = 0
                 /\ errorGauge' = ErrorGaugeOf(r)
                 /\ pc' = "collect"
                 /\ UNCHANGED <<tpc, pinged>>
            ELSE /\ up' = 1
                 /\ pinged' = db
                 /\ tpc' = [i \in Tasks |-> "querying"]
                 /\ pc' = "wait"
                 /\ UNCHANGED errorGauge
    /\ UNCHANGED <<metricsToScrap, answers, db, totalScrapes, scrapeErrors, errBase,
                   rows, cursor, handle, expired, metricsCount, ret, sent, crashed,
                   probeVars>>

\* ------------------------------------------- the goroutine of one definition
\* The deadline of goroutine i's context passes while ScrapeMetric runs
\* (context.WithTimeout, main.go 328).
DeadlineExceeded(i) ==
    /\ pc = "wait" /\ ~crashed
    /\ tpc[i] \in {"querying", "next"}
    /\ ~expired[i]
    /\ expired' = [expired EXCEPT ![i] = TRUE]
    /\ UNCHANGED <<metricsToScrap, answers, pc, db, err, up, pinged, errorGauge,
                   totalScrapes, scrapeErrors, errBase, tpc, rows, cursor, handle,
                   metricsCount, ret, sent, crashed, probeVars>>

\* ScrapeGenericValues returns (main.go 307-315), ScrapeMetric returns the same
\* value, and the goroutine assigns it to the err of scrape (main.go 229, the
\* simple statement of the if).
TaskReturns(i, genErr) ==
    LET e == ScrapeGenericValuesResult(metricsToScrap[i], genErr, metricsCount[i]) IN
    /\ ret' = [ret EXCEPT ![i] = e]
    /\ err' = e
    /\ tpc' = [tpc EXCEPT ![i] = "iferr"]

\* A faulty variant of QueryHandle: the handle the exporter was built with.
StaleHandle(d) == 1

\* main.go 229: the goroutine passes the exporter's current handle, e.db, to
\* ScrapeMetric.
QueryHandle(d) == d

\* main.go 209-229, 258-270, 320-340: the goroutine logs (also for an empty
\* Request or an empty MetricsDesc), calls QueryContext and tests ctx.Err()
\* and the error. QueryContext returns the context's error when the deadline
\* has passed; otherwise the database answers with an error or with a cursor,
\* and the deadline may still pass before line 332 reads ctx.Err(): the
\* function then returns without having deferred rows.Close (main.go 340), and
\* database/sql, which closes the cursor of a finished context on its own,
\* has done so by then or has not.
TaskQuery(i) ==
    /\ pc = "wait" /\ ~crashed
    /\ tpc[i] = "querying"
    /\ handle' = [handle EXCEPT ![i] = QueryHandle(db)]
    /\ \/ /\ expired[i]
          /\ TaskReturns(i, "timeout")
          /\ UNCHANGED <<rows, cursor, expired>>
       \/ /\ ~expired[i]
          /\ TaskReturns(i, "query")
          /\ UNCHANGED <<rows, cursor, expired>>
       \/ /\ ~expired[i]
          /\ \E c \in {"open", "closed"} : cursor' = [cursor EXCEPT ![i] = c]
          /\ expired' = [expired EXCEPT ![i] = TRUE]
          /\ TaskReturns(i, "timeout")
          /\ UNCHANGED rows
       \/ /\ ~expired[i]
          /\ \E res \in answers : rows' = [rows EXCEPT ![i] = res]
          /\ cursor' = [cursor EXCEPT ![i] = "open"]
          /\ tpc' = [tpc EXCEPT ![i] = "next"]
          /\ UNCHANGED <<ret, err, expired>>
    /\ UNCHANGED <<metricsToScrap, answers, pc, db, up, pinged, errorGauge, totalScrapes,
                   scrapeErrors, errBase, metricsCount, sent, crashed, probeVars>>

\* The orders in which one iteration over a Go map may visit the keys S.
RECURSIVE Orders(_)
Orders(S) ==
    IF S = {} THEN {<<>>}
    ELSE UNION {{<<c>> \o o : o \in Orders(S \ {c})} : c \in S}

\* genericParser (main.go 270-306) sends the samples of the columns o of row.
SendSamples(i, row, o) ==
    /\ sent' = [sent EXCEPT ![i] =
                  @ \o [j \in DOMAIN o |-> SampleOf(metricsToScrap[i], row, o[j])]]
    /\ metricsCount' = [metricsCount EXCEPT ![i] = @ + Len(o)]

\* main.go 342-369: one turn of the loop: rows.Next, Scan, the row map,
\* genericParser. A cursor whose context is done has been closed by
\* database/sql: Next answers false as it does after the last row and
\* GeneratePrometheusMetrics returns nil, or Scan fails on the closed cursor
\* and its error is returned. A panic of GetMetricType in the goroutine ends
\* the process.
TaskRow(i) ==
    /\ pc = "wait" /\ ~crashed
    /\ tpc[i] = "next"
    /\ \/ /\ expired[i] \/ rows[i] = <<>>
          /\ TaskReturns(i, "nil")
          /\ cursor' = [cursor EXCEPT ![i] = "closed"]
          /\ rows' = [rows EXCEPT ![i] = <<>>]
          /\ UNCHANGED <<metricsCount, sent, crashed>>
       \/ /\ expired[i] /\ rows[i] # <<>>
          /\ TaskReturns(i, "scan")
          /\ cursor' = [cursor EXCEPT ![i] = "closed"]
          /\ rows' = [rows EXCEPT ![i] = <<>>]
          /\ UNCHANGED <<metricsCount, sent, crashed>>
       \/ /\ ~expired[i] /\ rows[i] # <<>>
          /\ LET m == metricsToScrap[i]
                 row == Head(rows[i])
             IN
             IF PanicColumns(m, row) # {}
             THEN /\ crashed' = TRUE
                  /\ \E before \in SUBSET (ParsedColumns(m, row) \ PanicColumns(m, row)) :
                       \E o \in Orders(before) : SendSamples(i, row, o)
                  /\ UNCHANGED <<rows, cursor, ret, err, tpc>>
             ELSE /\ \E o \in Orders(ParsedColumns(m, row)) : SendSamples(i, row, o)
                  /\ rows' = [rows EXCEPT ![i] = Tail(@)]
                  /\ UNCHANGED <<cursor, ret, err, tpc, crashed>>
    /\ UNCHANGED <<metricsToScrap, answers, pc, db, up, pinged, errorGauge, totalScrapes,
                   scrapeErrors, errBase, handle, expired, probeVars>>

\* main.go 229-235: the condition of the if reads the err of scrape, and the
\* goroutine counts an error for its definition's context or not; wg.Done.
TaskIfErr(i) ==
    /\ pc = "wait" /\ ~crashed
    /\ tpc[i] = "iferr"
    /\ IF err # "nil"
       THEN scrapeErrors' = [scrapeErrors EXCEPT ![metricsToScrap[i].Context] = @ + 1]
       ELSE UNCHANGED scrapeErrors
    /\ tpc' = [tpc EXCEPT ![i] = "done"]
    /\ UNCHANGED <<metricsToScrap, answers, pc, db, err, up, pinged, errorGauge,
                   totalScrapes, errBase, rows, cursor, handle, expired, metricsCount,
                   ret, sent, crashed, probeVars>>

\* A faulty variant of WaitReturns: one finished goroutine releases the wait.
WaitReturnsEarly == \E i \in Tasks : tpc[i] = "done"

\* main.go 203-210 and 237: wg.Wait returns once every goroutine of the cycle
\* has run its deferred wg.Done.
WaitReturns == \A i \in Tasks : tpc[i] = "done"

\* main.go 237 and 178-185: wg.Wait returns, scrape returns through its
\* deferred function.
ScrapeReturn ==
    /\ pc = "wait" /\ ~crashed
    /\ WaitReturns
    /\ errorGauge' = ErrorGaugeOf(err)
    /\ pc' = "collect"
    /\ UNCHANGED <<metricsToScrap, answers, db, err, up, pinged, totalScrapes,
                   scrapeErrors, errBase, taskVars, crashed, probeVars>>

\* main.go 168-172: Collect sends the health metrics and returns; the
\* goroutines of the cycle, their variables and the variables of the scrape
\* call are gone.
CollectHealth ==
    /\ pc = "collect" /\ ~crashed
    /\ pc' = "idle"
    /\ err' = "nil"
    /\ errBase' = scrapeErrors
    /\ pinged' = 0
    /\ tpc' = NoTasks(Tasks).tpc
    /\ rows' = NoTasks(Tasks).rows
    /\ cursor' = NoTasks(Tasks).cursor
    /\ handle' = NoTasks(Tasks).handle
    /\ expired' = NoTasks(Tasks).expired
    /\ metricsCount' = NoTasks(Tasks).metricsCount
    /\ ret' = NoTasks(Tasks).ret
    /\ sent' = NoTasks(Tasks).sent
    /\ UNCHANGED <<metricsToScrap, answers, db, up, errorGauge, totalScrapes,
                   scrapeErrors, crashed, probeVars>>

Next ==
    \/ ScrapeBegin
    \/ FirstPing
    \/ SecondPing
    \/ \E i \in Tasks : DeadlineExceeded(i)
    \/ \E i \in Tasks : TaskQuery(i)
    \/ \E i \in Tasks : TaskRow(i)
    \/ \E i \in Tasks : TaskIfErr(i)
    \/ ScrapeReturn
    \/ CollectHealth

Spec == Init /\ [][Next]_vars

\* The scrape cycles of an exporter whose definitions are all plain.
SpecPlain == InitPlain /\ [][Next]_vars

\* The scrape cycles of an exporter with one definition of the translation pool.
SpecTranslate == InitTranslate /\ [][Next]_vars

\* The scrape cycles of an exporter with one definition.
SpecScrape == InitScrape /\ [][Next]_vars

\* ------------------------------------------------ probe mode: /scrape
\* The credential store: section name -> key -> value. The section of a
\* module m is <<"client", m>> (the text "client.m"), the default section is
\* <<"client">>.
DefaultSection == <<"client">>

SectionOf(module) ==
    IF module = "" \/ module = "default" THEN DefaultSection ELSE <<"client", module>>

\* ini: Section.Key(name).String(). A key missing from a child section is
\* looked up in its parent section; a key found nowhere reads as "".
RECURSIVE KeyString(_, _, _)
KeyString(cfg, section, key) ==
    IF section \in DOMAIN cfg /\ key \in DOMAIN cfg[section] THEN cfg[section][key]
    ELSE IF Len(section) > 1 THEN KeyString(cfg, SubSeq(section, 1, Len(section) - 1), key)
    ELSE <<>>

Localhost == <<"localhost">>

DefaultPort == 3306

\* ini: Key.MustString(defaultVal)
MustString(value, defaultVal) == IF value = <<>> THEN defaultVal ELSE value

\* ini: Key.MustUint(defaultVal)
MustUint(value, defaultVal) == IF ParseUint(value).ok THEN ParseUint(value).val ELSE defaultVal

\* main.go 519: fmt.Sprintf("dm://%s:%s@%s:%v?autoCommit=true", ...)
FormatDSN(user, password, host, port) ==
    <<"dm://">> \o user \o <<":">> \o password \o <<"@">> \o host \o <<":">>
        \o FormatUint(port) \o <<"?autoCommit=true">>

\* main.go 506-511: the defaults taken for a host or port the request left
\* empty or zero.
HostOrDefault(host, cfg) ==
    IF host = <<>> THEN MustString(KeyString(cfg, DefaultSection, "host"), Localhost)
    ELSE host

PortOrDefault(port, cfg) ==
    IF port = 0 THEN MustUint(KeyString(cfg, DefaultSection, "port"), DefaultPort)
    ELSE port

\* A faulty variant of MissingCredentials: one of the two suffices.
MissingBothCredentials(user, password) == user = <<>> /\ password = <<>>

\* main.go 515: the test for missing credentials.
MissingCredentials(user, password) == user = <<>> \/ password = <<>>

\* main.go 474-522: the connection string and the error formExporterDSN returns.
formExporterDSN(target, module, cfg) ==
    LET targetPort == Split(target, ":")
        host == IF target # <<>> THEN targetPort[1] ELSE <<>>
        withPort == target # <<>> /\ Len(targetPort) > 1
        p == IF withPort THEN ParseUint(targetPort[2]) ELSE [ok |-> TRUE, val |-> 0]
        section == SectionOf(module)
        user == KeyString(cfg, section, "user")
        password == KeyString(cfg, section, "password")
    IN
    IF ~p.ok THEN [dsn |-> <<>>, err |-> "invalid port"]
    ELSE IF section \notin DOMAIN cfg THEN [dsn |-> <<>>, err |-> "no section"]
    ELSE IF MissingCredentials(user, password) THEN [dsn |-> <<>>, err |-> "no user or password"]
    ELSE [dsn |-> FormatDSN(user, password, HostOrDefault(host, cfg),
                            PortOrDefault(p.val, cfg)),
          err |-> "nil"]

\* The request targets of the model: every text of at most MaxTargetLen
\* characters over a host letter, the colon, two digits and a sign.
TargetChars == {"h", ":", "0", "7", "-"}

Targets == SeqsUpTo(TargetChars, MaxTargetLen)

Modules == {"", "default", "m", "z"}

Section(user, password, host, port) ==
    ("user" :> user) @@ ("password" :> password) @@ ("host" :> host) @@ ("port" :> port)

\* The config files of the model: a complete default section and a module
\* section; a default section without password, host and port, and a module
\* section with an empty user; no default section; a module section that
\* leaves the user to its parent.
ConfPool ==
    { (DefaultSection :> Section(<<"u">>, <<"p">>, <<"d">>, <<"9">>))
        @@ (<<"client", "m">> :> (("user" :> <<"v">>) @@ ("password" :> <<"q">>))),
      (DefaultSection :> (("user" :> <<"u">>) @@ ("port" :> <<"x">>)))
        @@ (<<"client", "m">> :> (("user" :> <<>>) @@ ("password" :> <<"q">>))),
      (<<"client", "m">> :> (("user" :> <<"v">>) @@ ("password" :> <<"q">>))),
      (DefaultSection :> Section(<<"u">>, <<"p">>, <<"d">>, <<"9">>))
        @@ (<<"client", "m">> :> ("password" :> <<"q">>)) }

\* The requests handled concurrently in the probe specification.
ProbeTargets == {<<>>, <<"h">>, <<"h", ":", "7">>, <<"h", ":", "-">>}

Requests == DOMAIN request

\* main.go 452-460: the handler reads target and module, assigns the results
\* of formExporterDSN to the package variable dsn and to its own err, and
\* answers a failed resolution with 400.
HandleResolve(r) ==
    /\ hpc[r] = "resolve"
    /\ LET res == formExporterDSN(request[r].target, request[r].module, exportConf) IN
       /\ dsn' = res.dsn
       /\ resolved' = [resolved EXCEPT ![r] = res]
       /\ IF res.err # "nil"
          THEN /\ status' = [status EXCEPT ![r] = 400]
               /\ hpc' = [hpc EXCEPT ![r] = "done"]
          ELSE /\ hpc' = [hpc EXCEPT ![r] = "construct"]
               /\ UNCHANGED status
    /\ UNCHANGED <<exportConf, request, exporterDsn, connects, cycleVars>>

\* main.go 462 with 110-113: NewExporter(dsn) reads the package variable dsn,
\* connects with it and keeps it in the exporter.
HandleNewExporter(r) ==
    /\ hpc[r] = "construct"
    /\ exporterDsn' = [exporterDsn EXCEPT ![r] = dsn]
    /\ connects' = [connects EXCEPT ![r] = @ + 1]
    /\ hpc' = [hpc EXCEPT ![r] = "serve"]
    /\ UNCHANGED <<dsn, exportConf, request, resolved, status, cycleVars>>

\* main.go 463-470: the exporter is registered and the metrics handler
\* serves the response (the scrapes of the exporter left aside).
HandleServe(r) ==
    /\ hpc[r] = "serve"
    /\ status' = [status EXCEPT ![r] = 200]
    /\ hpc' = [hpc EXCEPT ![r] = "done"]
    /\ UNCHANGED <<dsn, exportConf, request, resolved, exporterDsn, connects, cycleVars>>

\* main.go 464 with 148-159: registry.MustRegister calls Describe of the
\* fresh exporter, and Describe calls Collect, which calls scrape.
HandleRegister(r) ==
    /\ hpc[r] = "serve" /\ pc = "idle" /\ ~crashed
    /\ ScrapeEntry
    /\ hpc' = [hpc EXCEPT ![r] = "describe"]
    /\ UNCHANGED <<dsn, exportConf, request, resolved, exporterDsn, connects, status>>

\* main.go 160-162 and 465-470 with 166-167: Describe has returned; the
\* metrics handler gathers the registry, which calls Collect of the exporter,
\* which calls scrape.
HandleGather(r) ==
    /\ hpc[r] = "describe" /\ pc = "idle" /\ ~crashed
    /\ ScrapeEntry
    /\ hpc' = [hpc EXCEPT ![r] = "gather"]
    /\ UNCHANGED <<dsn, exportConf, request, resolved, exporterDsn, connects, status>>

\* main.go 470: Collect has returned; the gathered metrics are written as the
\* response.
HandleRespond(r) ==
    /\ hpc[r] = "gather" /\ pc = "idle" /\ ~crashed
    /\ status' = [status EXCEPT ![r] = 200]
    /\ hpc' = [hpc EXCEPT ![r] = "done"]
    /\ UNCHANGED <<dsn, exportConf, request, resolved, exporterDsn, connects, cycleVars>>

\* Probe mode (main.go 417-423): the credential store is loaded and R requests
\* with the given parameters have arrived.
RequestsArrive(R, targets) ==
    /\ dsn = <<>>
    /\ exportConf \in ConfPool
    /\ request \in [R -> [target : targets, module : Modules]]
    /\ hpc = [r \in R |-> "resolve"]
    /\ resolved = [r \in R |-> [dsn |-> <<>>, err |-> "none"]]
    /\ exporterDsn = [r \in R |-> <<>>]
    /\ connects = [r \in R |-> 0]
    /\ status = [r \in R |-> 0]

\* Probe mode with one definition loaded (main.go 394-423) and one request,
\* whose exporter performs its scrapes.
InitProbeScrape ==
    /\ metricsToScrap = [i \in {1} |-> PlainMetric]
    /\ answers = {<<>>, <<NumericRow>>}
    /\ ExporterInit({1})
    /\ RequestsArrive({1}, ProbeTargets)

NextProbeScrape ==
    \/ \E r \in Requests : HandleResolve(r)
    \/ \E r \in Requests : HandleNewExporter(r)
    \/ \E r \in Requests : HandleRegister(r)
    \/ \E r \in Requests : HandleGather(r)
    \/ \E r \in Requests : HandleRespond(r)
    \/ FirstPing
    \/ SecondPing
    \/ \E i \in Tasks : DeadlineExceeded(i)
    \/ \E i \in Tasks : TaskQuery(i)
    \/ \E i \in Tasks : TaskRow(i)
    \/ \E i \in Tasks : TaskIfErr(i)
    \/ ScrapeReturn
    \/ CollectHealth

\* One probe request from its arrival to its response.
SpecProbeScrape == InitProbeScrape /\ [][NextProbeScrape]_vars

\* Probe mode (main.go 417-423): the credential store is loaded, no exporter
\* is registered, and R requests with the given parameters have arrived.
ProbeInit(R, targets) ==
    /\ metricsToScrap = <<>>
    /\ answers = {}
    /\ ExporterInit({})
    /\ dsn = <<>>
    /\ exportConf \in ConfPool
    /\ request \in [R -> [target : targets, module : Modules]]
    /\ hpc = [r \in R |-> "resolve"]
    /\ resolved = [r \in R |-> [dsn |-> <<>>, err |-> "none"]]
    /\ exporterDsn = [r \in R |-> <<>>]
    /\ connects = [r \in R |-> 0]
    /\ status = [r \in R |-> 0]

NextProbe ==
    \/ \E r \in Requests : HandleResolve(r)
    \/ \E r \in Requests : HandleNewExporter(r)
    \/ \E r \in Requests : HandleServe(r)

\* NumRequests concurrent requests.
InitProbe == ProbeInit(1..NumRequests, ProbeTargets)

SpecProbe == InitProbe /\ [][NextProbe]_vars

\* One request, over every target.
InitResolve == ProbeInit({1}, Targets)

SpecResolve == InitResolve /\ [][NextProbe]_vars

\* ================================================================ claims
Returned(i) == tpc[i] \in {"iferr", "done"}

Joined == Tasks # {} /\ \A i \in Tasks : tpc[i] = "done"

\* The definitions of context c whose own ScrapeMetric call returned an error.
FailedIn(c) == {i \in Tasks : metricsToScrap[i].Context = c /\ ret[i] # "nil"}

\* C1: once all goroutines of a cycle have joined, the error counter of every
\* context has grown by exactly the number of that context's definitions
\* whose own ScrapeMetric call returned an error (by 1 for a failed
\* definition, by 0 for a successful one), under every interleaving.
C1_ErrorCounterFollowsOwnResult ==
    Joined => \A c \in Contexts :
                scrapeErrors[c] = errBase[c] + Cardinality(FailedIn(c))

\* C3 as stated: a first ping that fails for another reason than a closed
\* handle ends the cycle with up = 0 and without starting a goroutine.
C3_OtherPingFailureEndsCycle ==
    [][(pc = "reping" /\ err = "other")
         => (up' = 0 /\ pc' = "collect" /\ tpc' = tpc)]_vars

\* C3, amended: the second ping decides. When it fails the cycle sets up to 0
\* and ends with no goroutine started, no cursor opened and no sample sent;
\* goroutines are started only by a second ping that succeeded and set up
\* to 1.
C3_SecondPingDecides ==
    [][/\ (pc = "reping" /\ err' # "nil")
            => /\ up' = 0
               /\ pc' = "collect"
               /\ \A i \in Tasks :
                    tpc'[i] = "none" /\ cursor'[i] = "none" /\ sent'[i] = <<>>
       /\ (\E i \in Tasks : tpc[i] = "none" /\ tpc'[i] # "none")
            => (pc = "reping" /\ err' = "nil" /\ up' = 1)
       /\ (\E i \in Tasks : tpc[i] # "none") => up = 1]_vars

C3_Witness ==
    /\ pc = "collect" /\ up = 0 /\ err = "other"
    /\ \A i \in Tasks : tpc[i] = "none" /\ sent[i] = <<>>

\* C4: the handle is replaced only by the first ping of a cycle, exactly when
\* that ping reported the handle closed, and by one fresh handle; the position
\* of the first ping is entered once per cycle; a second ping that succeeds
\* after the reconnect marks the target up and starts every definition.
C4_ReconnectOnClosedHandle ==
    [][/\ (pc = "ping" /\ pc' = "reping")
            => (IF err' = "closed" THEN db' = db + 1 ELSE db' = db)
       /\ db' # db => (pc = "ping" /\ pc' = "reping")
       /\ pc' = "ping" => pc \in {"idle", "ping"}
       /\ (pc = "reping" /\ err = "closed" /\ err' = "nil")
            => /\ up' = 1
               /\ pc' = "wait"
               /\ \A i \in Tasks : tpc'[i] = "querying"]_vars

C4_Witness ==
    /\ totalScrapes = 1 /\ db = 2 /\ up = 1 /\ pc = "wait"
    /\ \A i \in Tasks : tpc[i] = "querying"

\* C5: a scrape whose deadline passed before it finished has returned the
\* "query timed out" error.
C5_ExpiredDeadlineReturnsTimeout ==
    \A i \in Tasks : (Returned(i) /\ expired[i]) => ret[i] = "timeout"

\* C6: the process never dies of a panic raised in the scrape path.
C6_NeverCrashes == ~crashed

\* A definition with an empty query or an empty value-column mapping.
Invalid(m) == m.Request = "" \/ DOMAIN m.MetricsDesc = {}

\* C7: the task of an invalid definition returns an error and has executed no
\* query (no cursor was ever obtained for it).
C7_InvalidDefinitionFailsFast ==
    \A i \in Tasks :
        (Returned(i) /\ Invalid(metricsToScrap[i]))
            => (ret[i] # "nil" /\ cursor[i] = "none")

\* C8: when GeneratePrometheusMetrics returned without error, the scrape
\* returns "no metrics found" exactly if ignoreZeroResult is false and no
\* sample was sent in the whole scrape.
C8_ZeroResultPolicy ==
    \A i \in Tasks :
        (Returned(i) /\ ret[i] \notin {"timeout", "query", "scan"})
            => /\ ret[i] \in {"nil", "nometrics"}
               /\ ret[i] = "nometrics"
                    <=> (~metricsToScrap[i].IgnoreZeroResult /\ sent[i] = <<>>)

C8_Witness ==
    \E i \in Tasks :
        /\ tpc[i] = "done" /\ cursor[i] = "closed" /\ ~expired[i]
        /\ ~metricsToScrap[i].IgnoreZeroResult
        /\ ret[i] = "nometrics" /\ sent[i] = <<>> /\ totalScrapes = 2

\* C2: the exporter of a request is constructed with the connection string
\* that its own formExporterDSN call returned.
C2_ExporterUsesOwnDSN ==
    \A r \in Requests : connects[r] > 0 => exporterDsn[r] = resolved[r].dsn

\* The section a request's module selects, as the claim states it.
SelectedSection(r) ==
    IF request[r].module \in {"", "default"} THEN <<"client">>
    ELSE <<"client", request[r].module>>

Resolved(r) == resolved[r].err # "none"

\* The texts before and after the first colon of a target.
Colons(t) == {j \in DOMAIN t : t[j] = ":"}

FirstColon(t) == CHOOSE j \in Colons(t) : \A l \in Colons(t) : j <= l

HostGiven(t) == IF Colons(t) = {} THEN t ELSE SubSeq(t, 1, FirstColon(t) - 1)

PortGiven(t) == SubSeq(t, FirstColon(t) + 1, Len(t))

PortParses(t) == AllDigits(PortGiven(t))

\* A module other than the default one is named by the request.
Explicit(r) == request[r].module \notin {"", "default"}

\* C9 as stated: resolution succeeds only for an existing section with user
\* and password; an explicitly named module without a section fails with the
\* section-not-found error, an empty user or password with the
\* missing-credentials error; every failed resolution is answered with 400
\* and opens no connection.
C9_ResolutionErrors ==
    \A r \in Requests : Resolved(r) =>
        LET sec == SelectedSection(r)
            found == sec \in DOMAIN exportConf
            creds == /\ KeyString(exportConf, sec, "user") # <<>>
                     /\ KeyString(exportConf, sec, "password") # <<>>
        IN /\ resolved[r].err = "nil" => (found /\ creds)
           /\ (Explicit(r) /\ ~found) => resolved[r].err = "no section"
           /\ (found /\ ~creds) => resolved[r].err = "no user or password"
           /\ resolved[r].err # "nil"
                => (status[r] = 400 /\ hpc[r] = "done" /\ connects[r] = 0)

\* C9, amended: the same, where the error kinds are those of a request whose
\* target carries no unparsable port; a target with an unparsable port fails
\* first, with the invalid-port error.
C9_ResolutionErrorsAfterPortCheck ==
    \A r \in Requests : Resolved(r) =>
        LET t == request[r].target
            sec == SelectedSection(r)
            found == sec \in DOMAIN exportConf
            creds == /\ KeyString(exportConf, sec, "user") # <<>>
                     /\ KeyString(exportConf, sec, "password") # <<>>
            badPort == Colons(t) # {} /\ ~AllDigits(Split(t, ":")[2])
        IN /\ resolved[r].err = "nil" => (found /\ creds)
           /\ badPort => resolved[r].err = "invalid port"
           /\ (~badPort /\ Explicit(r) /\ ~found) => resolved[r].err = "no section"
           /\ (~badPort /\ found /\ ~creds) => resolved[r].err = "no user or password"
           /\ resolved[r].err # "nil"
                => (status[r] = 400 /\ hpc[r] = "done" /\ connects[r] = 0)

C9_Witness ==
    \E r \in Requests :
        /\ hpc[r] = "done" /\ status[r] = 400 /\ connects[r] = 0
        /\ request[r].module = "z" /\ resolved[r].err = "no section"
        /\ DefaultSection \in DOMAIN exportConf

\* C10: for a target host or host:port, a port that does not parse fails
\* with the invalid-port error, and a successful resolution connects to the
\* host and the port of the request, with the default section's host or port
\* only in place of the one the request does not supply.
C10_HostPortOfRequest ==
    \A r \in Requests : (Resolved(r) /\ Cardinality(Colons(request[r].target)) <= 1) =>
        LET t == request[r].target
            sec == SelectedSection(r)
            withPort == Colons(t) # {}
            host == IF HostGiven(t) # <<>> THEN HostGiven(t)
                    ELSE MustString(KeyString(exportConf, <<"client">>, "host"), Localhost)
            port == IF withPort THEN DecimalValue(PortGiven(t))
                    ELSE MustUint(KeyString(exportConf, <<"client">>, "port"), DefaultPort)
        IN /\ (withPort /\ ~PortParses(t)) => resolved[r].err = "invalid port"
           /\ resolved[r].err = "nil"
                => resolved[r].dsn = FormatDSN(KeyString(exportConf, sec, "user"),
                                               KeyString(exportConf, sec, "password"),
                                               host, port)

\* C11: the health metrics of a cycle are sent only after every goroutine
\* the cycle started has finished (or when none was started), and while they
\* are being sent no goroutine sends a sample or counts an error.
C11_ForkJoinBarrier ==
    [][/\ pc' = "collect"
            => \/ \A i \in Tasks : tpc'[i] = "done"
               \/ \A i \in Tasks : tpc'[i] = "none" /\ sent'[i] = <<>>
       /\ pc = "collect"
            => /\ scrapeErrors' = scrapeErrors
               /\ \A i \in Tasks : sent'[i] \in {sent[i], <<>>}
       /\ (\E i \in Tasks : sent'[i] # sent[i] /\ sent'[i] # <<>>) => pc = "wait"
       /\ scrapeErrors' # scrapeErrors => pc = "wait"]_vars

C11_Witness ==
    /\ pc = "collect" /\ up = 1 /\ totalScrapes = 2
    /\ \A i \in Tasks : tpc[i] = "done"
    /\ \E i \in Tasks : sent[i] # <<>>
    /\ \E c \in Contexts : scrapeErrors[c] > errBase[c]

\* The step in which goroutine i hands one row to genericParser.
Translates(i) ==
    /\ tpc[i] = "next" /\ ~expired[i] /\ rows[i] # <<>>
    /\ sent'[i] # sent[i] \/ rows'[i] # rows[i] \/ crashed' # crashed

\* The samples goroutine i sends in a step.
Emitted(i) == SubSeq(sent'[i], Len(sent[i]) + 1, Len(sent'[i]))

\* The value columns of m whose trimmed text in row is a float.
Parsable(m, row) ==
    {c \in DOMAIN m.MetricsDesc : ParseFloat(TrimSpace(MapGet(row, c))).ok}

\* C12: translating one row sends exactly one sample for every value column
\* whose trimmed text is a float, with that float as its value, and none for
\* the other value columns; the translation of the row neither fails nor
\* ends the scrape.
C12_OneSamplePerParsableColumn ==
    [][\A i \in Tasks : Translates(i) =>
          LET m == metricsToScrap[i]
              row == Head(rows[i])
          IN /\ \E o \in Orders(Parsable(m, row)) :
                  /\ Len(Emitted(i)) = Len(o)
                  /\ \A j \in DOMAIN o :
                       Emitted(i)[j].value = ParseFloat(TrimSpace(MapGet(row, o[j]))).val
             /\ ~crashed'
             /\ tpc'[i] = "next" /\ ret'[i] = ret[i]]_vars

\* A map with its keys in lower case.
LowerKeys(f) ==
    [k \in {ToLower(c) : c \in DOMAIN f} |-> f[CHOOSE c \in DOMAIN f : ToLower(c) = k]]

\* The definition m with every column reference spelled in lower case.
LowerSpelling(m) ==
    [m EXCEPT !.Labels = [j \in DOMAIN m.Labels |-> ToLower(m.Labels[j])],
              !.MetricsDesc = LowerKeys(m.MetricsDesc),
              !.MetricsType = LowerKeys(m.MetricsType),
              !.FieldToAppend = ToLower(m.FieldToAppend)]

\* What C13 compares of a sample.
Observed(s) == [value |-> s.value, labelValues |-> s.labelValues, kind |-> s.kind]

\* C13: translating a row under a definition sends the samples (values, label
\* values, kinds) that the same definition with lower-case column references
\* sends, wherever that lower-case definition translates the row.
C13_SpellingIrrelevant ==
    [][\A i \in Tasks :
          (Translates(i) /\ PanicColumns(LowerSpelling(metricsToScrap[i]), Head(rows[i])) = {}) =>
              LET lm == LowerSpelling(metricsToScrap[i])
                  row == Head(rows[i])
              IN \E o \in Orders(ParsedColumns(lm, row)) :
                    /\ Len(Emitted(i)) = Len(o)
                    /\ \A j \in DOMAIN o :
                         Observed(Emitted(i)[j]) = Observed(SampleOf(lm, row, o[j]))]_vars

\* sanitize, character by character: a blank becomes "_", parentheses,
\* slashes and asterisks are dropped, letters are lowered.
RECURSIVE Sanitize(_)
Sanitize(t) ==
    IF t = <<>> THEN <<>>
    ELSE (CASE Head(t) = " " -> <<"_">>
            [] Head(t) \in {"(", ")", "/", "*"} -> <<>>
            [] OTHER -> <<LowerChar(Head(t))>>) \o Sanitize(Tail(t))

\* namespace_context_name
FullName(context, name) == namespace \o <<"_">> \o context \o <<"_">> \o name

\* C14: every sample of a definition with a name field has no labels and
\* the name namespace_context_sanitize(row[nameField]); every sample of a
\* definition without one is named namespace_context_column, samples of one
\* row by different columns, and carries the configured labels in their
\* order, each with the row's text or with the empty string when the row has
\* no such column.
C14_NamingStrategies ==
    [][\A i \in Tasks : Translates(i) =>
          LET m == metricsToScrap[i]
              row == Head(rows[i])
              new == Emitted(i)
          IN IF m.FieldToAppend # <<>>
             THEN \A j \in DOMAIN new :
                    /\ new[j].labels = <<>> /\ new[j].labelValues = <<>>
                    /\ m.FieldToAppend \in DOMAIN row
                    /\ new[j].name = FullName(m.Context, Sanitize(row[m.FieldToAppend]))
             ELSE /\ \A j \in DOMAIN new :
                       /\ \E c \in DOMAIN m.MetricsDesc : new[j].name = FullName(m.Context, c)
                       /\ new[j].labels = m.Labels
                       /\ DOMAIN new[j].labelValues = DOMAIN m.Labels
                       /\ \A k \in DOMAIN m.Labels :
                            new[j].labelValues[k] =
                                IF m.Labels[k] \in DOMAIN row THEN row[m.Labels[k]] ELSE <<>>
                  /\ \A j, k \in DOMAIN new : j # k => new[j].name # new[k].name]_vars

C14_Witness ==
    \E i \in Tasks :
        /\ metricsToScrap[i].FieldToAppend # <<>> /\ metricsToScrap[i].Labels # <<>>
        /\ \E j \in DOMAIN sent[i] :
             /\ sent[i][j].name = <<"d", "m", "d", "b", "_", "t", "_", "a", "_", "a">>
             /\ sent[i][j].labels = <<>>

\* C15: no error variable is shared between the goroutines of a cycle: the
\* error a goroutine tests after its scrape is the one its own ScrapeMetric
\* call returned, whatever the other goroutines have done meanwhile.
C15_TaskTestsOwnError ==
    \A i \in Tasks : tpc[i] = "iferr" => err = ret[i]

\* C16: when scrape has returned, last_scrape_error is 1 if the ping failed
\* or the ScrapeMetric call of at least one definition returned an error in
\* this cycle, and 0 otherwise.
C16_ErrorGaugeOfCycle ==
    pc = "collect" =>
        errorGauge = IF up = 0 \/ \E i \in Tasks : ret[i] \notin {"nil", "none"}
                     THEN 1 ELSE 0

\* C17: the handle is replaced only by the first ping of a cycle that found
\* it closed, while no goroutine of the cycle exists; it stays the same from
\* the successful second ping until the cycle's goroutines are gone; and
\* every goroutine passes to its query the handle that the second ping of
\* its cycle succeeded on.
C17_HandleFixedDuringFanOut ==
    [][/\ db' # db
            => /\ pc = "ping" /\ err' = "closed"
               /\ \A i \in Tasks : tpc[i] = "none" /\ tpc'[i] = "none"
       /\ (\E i \in Tasks : tpc[i] # "none" \/ tpc'[i] # "none") => db' = db
       /\ \A i \in Tasks :
            handle'[i] # 0 => (handle'[i] = pinged' /\ pinged' = db')]_vars

C17_Witness ==
    /\ db = 2 /\ pinged = 2 /\ pc = "wait"
    /\ \A i \in Tasks : handle[i] = 2 /\ tpc[i] = "next" /\ cursor[i] = "open"

\* C18: a goroutine whose query returned a cursor has closed it when its
\* scrape returns, whatever the scrape returns.
C18_CursorClosedOnReturn ==
    \A i \in Tasks : Returned(i) => cursor[i] # "open"

\* C19: a probe request answered with the metrics has made its exporter run
\* exactly one scrape cycle (one ping sequence and one execution of every
\* definition's query): totalScrapes of the fresh exporter is 1.
C19_OneScrapePerProbe ==
    \A r \in Requests : (hpc[r] = "done" /\ status[r] = 200) => totalScrapes = 1

====
